---- MODULE Spec2Model ----
(***************************************************************************)
(* Model of processorPipe (pipe.go): the pipe a processor uses to forward  *)
(* a message to its children, to commit a message's metadata to its        *)
(* sources, and to accumulate the time spent doing so.                     *)
(*                                                                         *)
(* Each call is followed step by step: its entry (the defer statement      *)
(* that samples time.Now()), each iteration of its loop (one call of       *)
(* Process or Commit on a collaborator), and the deferred p.time(), whose  *)
(* "p.duration += time.Since(t)" is a load followed by a store.            *)
(*                                                                         *)
(* Spec     : one owner drives the pipe, one call at a time.               *)
(* SpecConc : two callers share the pipe with no synchronisation.          *)
(***************************************************************************)
EXTENDS Integers, Sequences, FiniteSets

(* ------------------------------ bounds --------------------------------- *)
MaxChildren == 3        \* longest children list given to NewPipe
MaxSources == 2         \* sources a message's metadata can mention
MaxClock == 2           \* the clock stops advancing at MaxClock

(* --------------------------- value domains ----------------------------- *)
Owner == "owner"
Callers == {"owner", "other"}

Sources == 1..MaxSources
Tokens == {"tok1", "tok2"}
\* A collaborator call takes no measurable time, or one unit of the clock.
Ticks == {0, 1}

Nil == "nil"
Errs == {"errA", "errB"}
Results == {Nil} \cup Errs
BoundsError == "streams: child index out of bounds"
IndexPanic == "panic: index out of range"
NoReturn == "none"

\* Message.Metadata(): a map from source to commit token.
Messages == UNION {[S -> Tokens] : S \in SUBSET Sources}
EmptyMsg == CHOOSE m \in Messages : DOMAIN m = {}

\* The children lists NewPipe may be given.  The pipe never looks inside a
\* Pump, so which pump stands where is a matter of naming: the pump wired at
\* position k (0-based, as in the code) is called <<"pump", k>>.
Pump(k) == <<"pump", k>>
ChildLists == {[p \in 1..n |-> Pump(p - 1)] : n \in 0..MaxChildren}

VARIABLES
    children,    \* p.children
    duration,    \* p.duration
    now,         \* the monotonic clock read by time.Now / time.Since
    pc,          \* per caller: where its call stands
    op,          \* per caller: the method it called last
    msg,         \* per caller: the msg argument
    index,       \* per caller: ForwardToChild's index argument
    i,           \* per caller: Forward's loop position (0-based)
    pending,     \* per caller: Commit's map entries not yet visited
    t0,          \* per caller: the time.Now() captured by the defer statement
    since,       \* per caller: time.Since(t) evaluated inside p.time
    reg,         \* per caller: p.duration as loaded inside p.time
    ret,         \* per caller: the value the call returned
    log,         \* per caller: the collaborator calls made by this call
    observed,    \* per caller: what Duration() returned last (-1: nothing)
    entered,     \* history: clock at the call's entry
    spent,       \* history: sum of (exit - entry) of the dispatch calls
                 \*          finished since construction or the last Reset
    overlapped   \* history: some call began while another was in flight

vars == <<children, duration, now, pc, op, msg, index, i, pending, t0,
          since, reg, ret, log, observed, entered, spent, overlapped>>

(* ----------------------------- NewPipe --------------------------------- *)
NewPipe(cs) ==
    /\ children = cs
    /\ duration = 0

Init ==
    /\ \E cs \in ChildLists : NewPipe(cs)
    /\ now = 0
    /\ pc = [c \in Callers |-> "idle"]
    /\ op = [c \in Callers |-> "none"]
    /\ msg = [c \in Callers |-> EmptyMsg]
    /\ index = [c \in Callers |-> 0]
    /\ i = [c \in Callers |-> 0]
    /\ pending = [c \in Callers |-> {}]
    /\ t0 = [c \in Callers |-> 0]
    /\ since = [c \in Callers |-> 0]
    /\ reg = [c \in Callers |-> 0]
    /\ ret = [c \in Callers |-> NoReturn]
    /\ log = [c \in Callers |-> <<>>]
    /\ observed = [c \in Callers |-> -1]
    /\ entered = [c \in Callers |-> 0]
    /\ spent = 0
    /\ overlapped = FALSE

(* ------------------------------ helpers -------------------------------- *)
InFlight(c) == pc[c] # "idle"

\* A call of c begins: note whether another call is in flight.
Enter(c, name) ==
    /\ pc[c] = "idle"
    /\ op' = [op EXCEPT ![c] = name]
    /\ overlapped' = (overlapped \/ \E d \in Callers \ {c} : InFlight(d))

\* A call of c begins with a fresh frame: its arguments, an empty record of
\* collaborator calls, nothing returned yet.
Fresh(c, m, idx, keys) ==
    /\ msg' = [msg EXCEPT ![c] = m]
    /\ index' = [index EXCEPT ![c] = idx]
    /\ i' = [i EXCEPT ![c] = 0]
    /\ pending' = [pending EXCEPT ![c] = keys]
    /\ ret' = [ret EXCEPT ![c] = NoReturn]
    /\ log' = [log EXCEPT ![c] = <<>>]
    /\ observed' = [observed EXCEPT ![c] = -1]
    /\ since' = [since EXCEPT ![c] = 0]
    /\ reg' = [reg EXCEPT ![c] = 0]

\* History: the clock when a dispatch call is entered.
Entry(c) ==
    entered' = [entered EXCEPT ![c] = now]

\* defer p.time(time.Now()): the argument is evaluated at the defer statement.
DeferTime(c) ==
    t0' = [t0 EXCEPT ![c] = now]

\* A step of a call's body takes dt of wall-clock time.
Tick(dt) ==
    /\ now + dt <= MaxClock
    /\ now' = now + dt

Invocation(kind, target, arg, res) ==
    [call |-> kind, on |-> target, arg |-> arg, res |-> res]

(* ------------------------------ Forward -------------------------------- *)
BeginForward(c, m) ==
    /\ Enter(c, "Forward")
    /\ Entry(c)
    /\ DeferTime(c)
    /\ pc' = [pc EXCEPT ![c] = "Forward"]
    /\ Fresh(c, m, 0, {})
    /\ UNCHANGED <<children, duration, now, spent>>

\* "for _, child := range p.children" visits positions 0 .. len-1.
\* (variant: the loop stops one short)
RangeEnd_SkipsLast(cs) == Len(cs) - 1
RangeEnd(cs) == Len(cs)

\* "if err := child.Process(msg); err != nil { return err }"
\* (variant: the error is dropped and the loop goes on)
ProcessFailed_Ignored(err) == FALSE
ProcessFailed(err) == err # Nil

\* One iteration of "for _, child := range p.children", or the loop's end.
ForwardStep(c, err, dt) ==
    /\ pc[c] = "Forward"
    /\ \/ /\ i[c] < RangeEnd(children)
          /\ LET child == children[i[c] + 1]
             IN /\ Tick(dt)
                /\ log' = [log EXCEPT ![c] =
                             Append(@, Invocation("Process", child, msg[c], err))]
                /\ IF ProcessFailed(err)
                     THEN /\ ret' = [ret EXCEPT ![c] = err]
                          /\ pc' = [pc EXCEPT ![c] = "time"]
                          /\ i' = i
                     ELSE /\ i' = [i EXCEPT ![c] = @ + 1]
                          /\ UNCHANGED <<ret, pc>>
       \/ /\ i[c] >= RangeEnd(children)
          /\ err = Nil
          /\ Tick(dt)
          /\ ret' = [ret EXCEPT ![c] = Nil]
          /\ pc' = [pc EXCEPT ![c] = "time"]
          /\ UNCHANGED <<log, i>>
    /\ UNCHANGED <<children, duration, op, msg, index, pending, t0,
                   since, reg, observed, entered, spent, overlapped>>

(* --------------------------- ForwardToChild ---------------------------- *)
BeginForwardToChild(c, m, idx) ==
    /\ Enter(c, "ForwardToChild")
    /\ Entry(c)
    /\ DeferTime(c)
    /\ pc' = [pc EXCEPT ![c] = "ForwardToChild"]
    /\ Fresh(c, m, idx, {})
    /\ UNCHANGED <<children, duration, now, spent>>

\* "child := p.children[index]", for an index the slice has.
\* (variant: the index counts from the end of the list)
ChildAt_FromEnd(idx) == children[Len(children) - idx]
ChildAt(idx) == children[idx + 1]

\* The body of ForwardToChild.  The only check is against the upper end of
\* the list; p.children[index] with a negative index is a run-time panic
\* (index out of range), during which the deferred p.time still runs.  The
\* panic is what the caller gets in place of a return value.
ForwardToChildStep(c, err, dt) ==
    /\ pc[c] = "ForwardToChild"
    /\ \/ /\ index[c] > Len(children) - 1
          /\ err = Nil
          /\ Tick(dt)
          /\ ret' = [ret EXCEPT ![c] = BoundsError]
          /\ UNCHANGED log
       \/ /\ ~(index[c] > Len(children) - 1)
          /\ index[c] < 0
          /\ err = Nil
          /\ Tick(dt)
          /\ ret' = [ret EXCEPT ![c] = IndexPanic]
          /\ UNCHANGED log
       \/ /\ ~(index[c] > Len(children) - 1)
          /\ index[c] >= 0
          /\ LET child == ChildAt(index[c])
             IN /\ Tick(dt)
                /\ log' = [log EXCEPT ![c] =
                             Append(@, Invocation("Process", child, msg[c], err))]
                /\ ret' = [ret EXCEPT ![c] = err]
    /\ pc' = [pc EXCEPT ![c] = "time"]
    /\ UNCHANGED <<children, duration, op, msg, index, i, pending, t0,
                   since, reg, observed, entered, spent, overlapped>>

(* ------------------------------- Commit -------------------------------- *)
BeginCommit(c, m) ==
    /\ Enter(c, "Commit")
    /\ Entry(c)
    /\ DeferTime(c)
    /\ pc' = [pc EXCEPT ![c] = "Commit"]
    /\ Fresh(c, m, 0, DOMAIN m)
    /\ UNCHANGED <<children, duration, now, spent>>

\* "if err := s.Commit(v); err != nil { return err }"
\* (variant: the error is dropped and the loop goes on)
CommitFailed_Ignored(err) == FALSE
CommitFailed(err) == err # Nil

\* The v of "for s, v := range msg.Metadata()": the token the map holds for s.
\* (variant: every source is given the first entry's token)
TokenOf_First(m, s) == m[CHOOSE k \in DOMAIN m : \A j \in DOMAIN m : k <= j]
TokenOf(m, s) == m[s]

\* One iteration of "for s, v := range msg.Metadata()", or the loop's end.
\* A Go map is ranged over in no particular order: s is any entry not yet
\* visited.
CommitStep(c, s, err, dt) ==
    /\ pc[c] = "Commit"
    /\ \/ /\ s \in pending[c]
          /\ LET v == TokenOf(msg[c], s)
             IN /\ Tick(dt)
                /\ log' = [log EXCEPT ![c] =
                             Append(@, Invocation("Commit", s, v, err))]
                /\ IF CommitFailed(err)
                     THEN /\ ret' = [ret EXCEPT ![c] = err]
                          /\ pc' = [pc EXCEPT ![c] = "time"]
                          /\ pending' = pending
                     ELSE /\ pending' = [pending EXCEPT ![c] = @ \ {s}]
                          /\ UNCHANGED <<ret, pc>>
       \/ /\ pending[c] = {}
          /\ s = 0 /\ err = Nil
          /\ Tick(dt)
          /\ ret' = [ret EXCEPT ![c] = Nil]
          /\ pc' = [pc EXCEPT ![c] = "time"]
          /\ UNCHANGED <<log, pending>>
    /\ UNCHANGED <<children, duration, op, msg, index, i, t0,
                   since, reg, observed, entered, spent, overlapped>>

(* -------------------------- Reset and Duration ------------------------- *)
\* (variant: Reset re-initialises the whole pipe)
Reset_DropsChildren(c) ==
    /\ Enter(c, "Reset")
    /\ Fresh(c, EmptyMsg, 0, {})
    /\ children' = <<>>
    /\ duration' = 0
    /\ spent' = 0
    /\ UNCHANGED <<now, pc, t0, entered>>

Reset(c) ==
    /\ Enter(c, "Reset")
    /\ Fresh(c, EmptyMsg, 0, {})
    /\ duration' = 0
    /\ spent' = 0
    /\ UNCHANGED <<children, now, pc, t0, entered>>

Duration(c) ==
    /\ Enter(c, "Duration")
    /\ msg' = [msg EXCEPT ![c] = EmptyMsg]
    /\ index' = [index EXCEPT ![c] = 0]
    /\ i' = [i EXCEPT ![c] = 0]
    /\ pending' = [pending EXCEPT ![c] = {}]
    /\ ret' = [ret EXCEPT ![c] = NoReturn]
    /\ log' = [log EXCEPT ![c] = <<>>]
    /\ observed' = [observed EXCEPT ![c] = duration]
    /\ since' = [since EXCEPT ![c] = 0]
    /\ reg' = [reg EXCEPT ![c] = 0]
    /\ UNCHANGED <<children, duration, now, pc, t0, entered, spent>>

(* ------------------------------- time ---------------------------------- *)
\* time.Since(t), t being the time.Now() of the defer statement.
\* (variant: time.Now() evaluated when the deferred call runs, not at the
\* defer statement)
Since_LateNow(t) == now - now
Since(t) == now - t

\* The sum that "+=" stores.
\* (variants: "=" for "+=", "-=" for "+=")
Sum_Assigned(d, e) == e
Sum_Subtracted(d, e) == d - e
Sum(d, e) == d + e

\* p.duration += time.Since(t), first half: evaluate time.Since(t) and load
\* p.duration.  The call's body is over here: the history variable spent
\* gains the time between the call's entry and this point.
timeLoad(c) ==
    /\ pc[c] = "time"
    /\ since' = [since EXCEPT ![c] = Since(t0[c])]
    /\ reg' = [reg EXCEPT ![c] = duration]
    /\ spent' = spent + (now - entered[c])
    /\ pc' = [pc EXCEPT ![c] = "store"]
    /\ UNCHANGED <<children, duration, now, op, msg, index, i, pending,
                   t0, ret, log, observed, entered, overlapped>>

\* second half: store the sum; p.time and the call return, and the call's
\* frame (t, the loaded value) is gone.
timeStore(c) ==
    /\ pc[c] = "store"
    /\ duration' = Sum(reg[c], since[c])
    /\ pc' = [pc EXCEPT ![c] = "idle"]
    /\ t0' = [t0 EXCEPT ![c] = 0]
    /\ since' = [since EXCEPT ![c] = 0]
    /\ reg' = [reg EXCEPT ![c] = 0]
    /\ entered' = [entered EXCEPT ![c] = 0]
    /\ UNCHANGED <<children, now, op, msg, index, i, pending, ret, log,
                   observed, spent, overlapped>>

(* --------------------------- specifications ---------------------------- *)
Indexes == (-1)..MaxChildren

\* One owner drives the pipe: a call begins only when the previous one is over.
Next ==
    \/ \E m \in Messages : BeginForward(Owner, m)
    \/ \E err \in Results, dt \in Ticks : ForwardStep(Owner, err, dt)
    \/ \E m \in Messages, idx \in Indexes : BeginForwardToChild(Owner, m, idx)
    \/ \E err \in Results, dt \in Ticks : ForwardToChildStep(Owner, err, dt)
    \/ \E m \in Messages : BeginCommit(Owner, m)
    \/ \E s \in Sources \cup {0}, err \in Results, dt \in Ticks :
          CommitStep(Owner, s, err, dt)
    \/ timeLoad(Owner)
    \/ timeStore(Owner)
    \/ Reset(Owner)
    \/ Duration(Owner)

Spec == Init /\ [][Next]_vars

\* Two callers share the pipe with no synchronisation: any of them may begin
\* a call, or take the next step of its call, at any time.  The arguments are
\* drawn from smaller sets: what matters here is the interleaving.
ConcChildLists == {cs \in ChildLists : Len(cs) <= 1}
ConcMessages == {m \in Messages : DOMAIN m = {} \/ m = [s \in {1} |-> "tok1"]}
ConcIndexes == {-1, 0}
ConcResults == {Nil, "errA"}

NextConc ==
    \E c \in Callers :
        \/ \E m \in ConcMessages : BeginForward(c, m)
        \/ \E err \in ConcResults, dt \in Ticks : ForwardStep(c, err, dt)
        \/ \E m \in ConcMessages, idx \in ConcIndexes :
              BeginForwardToChild(c, m, idx)
        \/ \E err \in ConcResults, dt \in Ticks :
              ForwardToChildStep(c, err, dt)
        \/ \E m \in ConcMessages : BeginCommit(c, m)
        \/ \E s \in Sources \cup {0}, err \in ConcResults, dt \in Ticks :
              CommitStep(c, s, err, dt)
        \/ timeLoad(c)
        \/ timeStore(c)
        \/ Reset(c)
        \/ Duration(c)

InitConc == Init /\ children \in ConcChildLists

SpecConc == InitConc /\ [][NextConc]_vars

(* ------------------------------ properties ----------------------------- *)
DispatchOps == {"Forward", "ForwardToChild", "Commit"}

\* The call of method name that c made last has returned to c.
Returned(c, name) == pc[c] = "idle" /\ op[c] = name

\* The positions of the collaborator calls in c's call that returned an error.
Failed(c) == {k \in 1..Len(log[c]) : log[c][k].res # Nil}

AllIdle == \A c \in Callers : pc[c] = "idle"

\* C1: Forward is fail-fast.  At every point of a Forward call and after it,
\* the consumers invoked so far are children[0], children[1], ... in list
\* order, each once and with the call's msg, and only the last of them can
\* have failed (so none is invoked after a failure); once the call has
\* returned with consumer k the failing one, exactly consumers 0..k were
\* invoked and the value returned is the error consumer k returned.
C1_ForwardFailFast ==
    \A c \in Callers :
        op[c] = "Forward" =>
            /\ Len(log[c]) <= Len(children)
            /\ \A j \in 1..Len(log[c]) :
                  /\ log[c][j].call = "Process"
                  /\ log[c][j].on = children[j]
                  /\ log[c][j].arg = msg[c]
            /\ \A j \in Failed(c) : j = Len(log[c])
            /\ (pc[c] = "idle" /\ Failed(c) # {}) =>
                  ret[c] = log[c][Len(log[c])].res

\* C1 witness: children [A, B, C], A succeeded, B failed, C was not invoked,
\* and Forward returned B's error.
C1_Witness ==
    /\ Returned(Owner, "Forward")
    /\ Len(children) = 3
    /\ Len(log[Owner]) = 2
    /\ log[Owner][1].res = Nil
    /\ log[Owner][2].res = "errB"
    /\ ret[Owner] = "errB"

\* C2: ForwardToChild with an index outside [0, N) returns the out-of-bounds
\* error as an error value and invokes no consumer.
C2_OutOfBoundsIsAnError ==
    \A c \in Callers :
        (/\ Returned(c, "ForwardToChild")
         /\ (index[c] < 0 \/ index[c] >= Len(children))) =>
            /\ ret[c] = BoundsError
            /\ log[c] = <<>>

\* C3: Commit is fail-fast.  At every point of a Commit call and after it,
\* each source invoked so far is a key of the message's metadata, invoked
\* once and with its own token, and only the last one invoked can have
\* failed (none is invoked after a failure); once the call has returned
\* after a failure, the value returned is that failure.
C3_CommitFailFast ==
    \A c \in Callers :
        op[c] = "Commit" =>
            /\ \A j \in 1..Len(log[c]) :
                  /\ log[c][j].call = "Commit"
                  /\ log[c][j].on \in DOMAIN msg[c]
                  /\ log[c][j].arg = msg[c][log[c][j].on]
            /\ \A j, k \in 1..Len(log[c]) :
                  j # k => log[c][j].on # log[c][k].on
            /\ \A j \in Failed(c) : j = Len(log[c])
            /\ (pc[c] = "idle" /\ Failed(c) # {}) =>
                  ret[c] = log[c][Len(log[c])].res

\* C3 witness: a message with two sources; the first source visited failed,
\* the other was not invoked, and Commit returned that failure.
C3_Witness ==
    /\ Returned(Owner, "Commit")
    /\ Cardinality(DOMAIN msg[Owner]) = 2
    /\ Len(log[Owner]) = 1
    /\ log[Owner][1].res = "errA"
    /\ ret[Owner] = "errA"

\* C4: under serial use, whenever no call is in flight the accumulator equals
\* the sum of (exit - entry) over the dispatch calls made since construction
\* or the last Reset, whatever way each call ended; Duration() returns that
\* sum; the accumulator is 0 after construction and after Reset().
C4_DurationIsTimeSpent ==
    pc[Owner] = "idle" =>
        /\ duration = spent
        /\ op[Owner] = "Duration" => observed[Owner] = spent
        /\ op[Owner] \in {"none", "Reset"} => duration = 0

\* C4 witness: a ForwardToChild that failed its bounds check has returned, and
\* the accumulator holds the time of that call and of the calls before it.
C4_Witness ==
    /\ Returned(Owner, "ForwardToChild")
    /\ ret[Owner] = BoundsError
    /\ duration = 2
    /\ spent = 2

\* C5: a Forward in which no consumer failed has invoked all N consumers,
\* each once, in list order, and returns success; and Forward returns
\* success only if no consumer failed.
C5_ForwardAll ==
    \A c \in Callers :
        Returned(c, "Forward") =>
            /\ Failed(c) = {} =>
                  /\ ret[c] = Nil
                  /\ Len(log[c]) = Len(children)
                  /\ \A j \in 1..Len(children) :
                        /\ log[c][j].call = "Process"
                        /\ log[c][j].on = children[j]
            /\ ret[c] = Nil =>
                  /\ Failed(c) = {}
                  /\ Len(log[c]) = Len(children)

\* C5 witness: three consumers, all invoked, Forward returned success.
C5_Witness ==
    /\ Returned(Owner, "Forward")
    /\ Len(children) = 3
    /\ Len(log[Owner]) = 3
    /\ ret[Owner] = Nil

\* C6: ForwardToChild with a valid index invokes the consumer at that
\* position, once, and no other, and returns what that consumer returned.
C6_ForwardToValidChild ==
    \A c \in Callers :
        (/\ Returned(c, "ForwardToChild")
         /\ 0 <= index[c]
         /\ index[c] < Len(children)) =>
            /\ Len(log[c]) = 1
            /\ log[c][1].call = "Process"
            /\ log[c][1].on = children[index[c] + 1]
            /\ log[c][1].arg = msg[c]
            /\ ret[c] = log[c][1].res

\* C6 witness: three consumers, index 1, the middle consumer failed and its
\* error was returned.
C6_Witness ==
    /\ Returned(Owner, "ForwardToChild")
    /\ Len(children) = 3
    /\ index[Owner] = 1
    /\ log[Owner] = <<Invocation("Process", Pump(1), msg[Owner], "errA")>>
    /\ ret[Owner] = "errA"

\* C7: a Commit in which no source failed has invoked Commit once on each
\* source of the metadata, with that source's token, has invoked no
\* consumer, and returns success.
C7_CommitAll ==
    \A c \in Callers :
        (Returned(c, "Commit") /\ Failed(c) = {}) =>
            /\ ret[c] = Nil
            /\ Len(log[c]) = Cardinality(DOMAIN msg[c])
            /\ {log[c][j].on : j \in 1..Len(log[c])} = DOMAIN msg[c]
            /\ \A j \in 1..Len(log[c]) :
                  /\ log[c][j].call = "Commit"
                  /\ log[c][j].arg = msg[c][log[c][j].on]

\* C7 witness: metadata {1: tok1, 2: tok2}, both sources committed, success.
C7_Witness ==
    /\ Returned(Owner, "Commit")
    /\ DOMAIN msg[Owner] = {1, 2}
    /\ msg[Owner][1] = "tok1"
    /\ msg[Owner][2] = "tok2"
    /\ Len(log[Owner]) = 2
    /\ ret[Owner] = Nil

\* C8: the accumulator is never negative; a step that is not a Reset never
\* lowers it; a Reset leaves it at exactly 0.
C8_DurationMonotone ==
    /\ [](duration >= 0)
    /\ [][IF op'[Owner] = "Reset"
            THEN duration' = 0
            ELSE duration' >= duration]_vars

\* C8 witness: a Reset has just brought an accumulator back to 0 after time
\* was spent in dispatch calls.
C8_Witness ==
    /\ Returned(Owner, "Reset")
    /\ now = 2
    /\ duration = 0

\* C9: no step changes the children list; a Reset changes nothing of the
\* pipe but the accumulator, a Duration() changes nothing of the pipe, and
\* neither invokes a consumer or a source (no collaborator call is recorded
\* and no time passes).
C9_ChildrenFixed ==
    [][/\ children' = children
       /\ op'[Owner] \in {"Reset", "Duration"} =>
             /\ log'[Owner] = <<>>
             /\ now' = now
       /\ op'[Owner] = "Duration" => duration' = duration]_vars

\* C9 witness: Duration() was called on a pipe with three children after
\* time was accumulated.
C9_Witness ==
    /\ Returned(Owner, "Duration")
    /\ children = <<Pump(0), Pump(1), Pump(2)>>
    /\ observed[Owner] = 2

\* C10: with two unsynchronised callers an update of the accumulator can be
\* lost; it can only happen when two calls overlapped: whenever no call is
\* in flight and no call ever began while another was in flight, the
\* accumulator equals the time spent.
C10_NoLossWithoutOverlap ==
    (AllIdle /\ ~overlapped) => duration = spent

\* C10 witness: both callers' dispatch calls have returned, each took one
\* unit of time, and the accumulator holds only one of them.
C10_Witness ==
    /\ AllIdle
    /\ \A c \in Callers : op[c] \in DispatchOps
    /\ spent = 2
    /\ duration = 1
====
